---- MODULE Spec2Model ----
(***************************************************************************)
(* SafeTalk chat relay (src/server.py): the per-connection handler         *)
(* handle_client, the registry maps it shares with the other handlers,     *)
(* the moderation pipeline check_safe and the broadcast fan-out            *)
(* broadcast_json / remove_client.                                         *)
(*                                                                         *)
(* Every connection is served by one asyncio task.  A task runs without    *)
(* interruption from one await to the next; the model keeps, for every     *)
(* task, the list of operations it still has to perform (work) and lets    *)
(* the tasks interleave only at the awaits (ws.send, ws.close, the         *)
(* async-for receive).                                                     *)
(***************************************************************************)
EXTENDS Integers, Sequences, FiniteSets, TLC

\* ---------------------------------------------------------------- bounds
MaxFrames == 2
MaxTime == 1
SoloFrames == 5
SoloTime == 4
BanFrames == 5
RateFrames == 8
RateTime == 2
ModFrames == 3
FifoFrames == 3
FifoTime == 2

(* The connection handles.  SoloConns: the one that connects when a single *)
(* session is followed through a long run of frames.                       *)
Conns == {1, 2}
SoloConns == {1}

\* ------------------------------------------------------ policy constants
UNSAFE_LIMIT == 3
RATE_LIMIT == 5
MIN_SPACING == 1

(* The clock is read in ticks (datetime.utcnow() has microseconds; the     *)
(* handler only compares the difference of two readings with one second). *)
(* Two ticks to the second order the readings of two sessions inside one   *)
(* second.                                                                 *)
TICKS_PER_SECOND == 2
MAX_LEN == 200
TOXIC_PERCENT == 50
AI_PREFIX_LEN == 4

None == "None"

\* ---------------------------------------------------------------- inputs
(* An id token as the verifier sees it: whether the signature checks, and  *)
(* the claims it carries (None: the claim is absent).                      *)
Tokens ==
  { [valid |-> TRUE,  email |-> "a@x", name |-> "Ann", picture |-> "pa"],
    [valid |-> TRUE,  email |-> "b@x", name |-> None,  picture |-> None],
    [valid |-> TRUE,  email |-> None,  name |-> None,  picture |-> None],
    [valid |-> FALSE, email |-> "a@x", name |-> "Ann", picture |-> "pa"] }

(* A chat text: pad = surrounding white space, len = length without it,    *)
(* ai = it starts with "/ai ", gap = white space between that prefix and   *)
(* the prompt, prof = the lexical classifier matches the moderated part,   *)
(* tox = the toxic score (percent) the remote classifier gives the         *)
(* moderated part.                                                         *)
Texts ==
  { [pad |-> 1, len |-> 0,   ai |-> FALSE, gap |-> 0, prof |-> FALSE, tox |-> 0],
    [pad |-> 0, len |-> 201, ai |-> FALSE, gap |-> 0, prof |-> FALSE, tox |-> 0],
    [pad |-> 1, len |-> 200, ai |-> FALSE, gap |-> 0, prof |-> FALSE, tox |-> 50],
    [pad |-> 0, len |-> 9,   ai |-> FALSE, gap |-> 0, prof |-> TRUE,  tox |-> 0],
    [pad |-> 0, len |-> 9,   ai |-> FALSE, gap |-> 0, prof |-> FALSE, tox |-> 51],
    [pad |-> 0, len |-> 9,   ai |-> TRUE,  gap |-> 0, prof |-> FALSE, tox |-> 0],
    [pad |-> 0, len |-> 9,   ai |-> TRUE,  gap |-> 2, prof |-> TRUE,  tox |-> 0] }

(* What the toxicity service does with one request.                        *)
HFReplies == {"scored", "error"}
(* What the completion service does with one request.                      *)
AIReplies == {"text", "error"}

Frames ==
  { [k |-> "garbage"], [k |-> "nonobject"], [k |-> "other"] }
  \cup { [k |-> "auth", token |-> t] : t \in Tokens }
  \cup { [k |-> "chat", content |-> c] : c \in Texts }

\* ------------------------------------------------------- pure functions
(* The result None (verification raised) is the record NoUser.             *)
NoUser == [email |-> None, name |-> None, pic |-> None]

verify_google_token(token) ==
  IF ~token.valid THEN NoUser
  ELSE [ email |-> token.email,
         name  |-> IF token.name # None THEN token.name
                   ELSE IF token.email # None THEN token.email ELSE "User",
         pic   |-> IF token.picture # None THEN token.picture ELSE "" ]

check_profanity_text(text) == text.prof

\* server.py:68-90 failing closed: no key or no answer counts as unsafe
check_hf_toxicity_fail_closed(text, key, reply) ==
  IF ~key THEN <<FALSE, "No moderation API key.">>
  ELSE IF reply = "error" THEN <<FALSE, "HF unavailable">>
  ELSE LET toxic_score == text.tox IN
       IF toxic_score > TOXIC_PERCENT
       THEN <<FALSE, "Toxicity flagged | Blocked by Hugging Face Toxicity">>
       ELSE <<TRUE, "OK">>

check_hf_toxicity(text, key, reply) ==
  IF ~key THEN <<TRUE, "No moderation API key.">>
  ELSE IF reply = "error" THEN <<TRUE, "HF unavailable">>
  ELSE LET toxic_score == text.tox IN
       IF toxic_score > TOXIC_PERCENT
       THEN <<FALSE, "Toxicity flagged | Blocked by Hugging Face Toxicity">>
       ELSE <<TRUE, "OK">>

\* server.py:93-96 with the remote classifier asked first
check_safe_run_toxicity_first(text, key, reply) ==
  LET r == check_hf_toxicity(text, key, reply) IN
  IF r[1] /\ check_profanity_text(text)
  THEN [res |-> <<FALSE, "Profanity detected">>, stage |-> "toxicity"]
  ELSE [res |-> r, stage |-> "toxicity"]

(* check_safe with the record of what it called: res is the value it       *)
(* returns, stage the last classifier it invoked.                          *)
check_safe_run(text, key, reply) ==
  IF check_profanity_text(text)
  THEN [res |-> <<FALSE, "Profanity detected">>, stage |-> "lexical"]
  ELSE [res |-> check_hf_toxicity(text, key, reply), stage |-> "toxicity"]

check_safe(text, key, reply) == check_safe_run(text, key, reply).res

strip(content) == [content EXCEPT !.pad = 0]

(* msg[4:].strip() of a message that starts with "/ai ": the prefix is cut *)
(* and the white space that followed it is stripped.                       *)
ai_prompt(msg) ==
  [msg EXCEPT !.len = msg.len - AI_PREFIX_LEN - msg.gap, !.gap = 0, !.ai = FALSE]

\* ----------------------------------------------------------------- state
VARIABLES
  clients,             \* list of connection handles (server.py:27)
  users,               \* dict ws -> user, as a list of <<ws, user>> in insertion order
  unsafe_counts,       \* dict ws -> int, Absent where the key is missing
  rate_limit_counts,   \* dict ws -> int, Absent where the key is missing
  last_message_times,  \* dict ws -> time, Absent where the key is missing
  banned_emails,       \* set of emails
  flagged_log,         \* the lines of the flagged-message log, oldest first
  hf_api_key,          \* whether HF_API_KEY is configured
  conn,                \* per handle: "new", "open", "lost" (open, sends fail), "closed"
  pc,                  \* per handler task: "new", "live", "done"
  work,                \* per handler task: the operations it still has to run
  nframes,             \* inbound frames taken so far
  everAuth,            \* history: the handle was admitted at some time
  leftAuth,            \* history: the handle was taken out of users at some time
  gotUL,               \* history: a user_list was delivered to the handle
  lastUL,              \* history: the last user_list delivered to the handle
  preAuthGot,          \* history: a broadcast reached the handle before it was admitted
  unsafeOut,           \* history: a chat event of content judged unsafe was delivered
  lastKick,            \* history: the last kick reason delivered to the handle
  nUnsafe,             \* history: content violations of the handle
  nRate,               \* history: rate violations of the handle
  calls,               \* history: times remove_client was called for the handle
  removed,             \* history: times remove_client took the handle out of clients
  leaves,              \* history: leave notices broadcast for the handle
  snaps,               \* history: presence snapshots broadcast on the handle's removal
  lastIn,              \* history: the last frame taken and by whom (of a chat frame, its type only)
  moderated,           \* history: what check_safe did for the last frame taken (NotModerated: not called)
  sent,                \* history: per task, its last chat broadcast (time, recipients)
  lastChat,            \* history: [to][by] the chat events of task by delivered to to (last time, number)
  outOfOrder,          \* history: a chat event was delivered after a later one of the same task
  failed               \* history: the handles on which a broadcast's send raised ConnectionClosed

vars == << clients, users, unsafe_counts, rate_limit_counts, last_message_times,
           banned_emails, flagged_log, hf_api_key, conn, pc, work, nframes,
           everAuth, leftAuth, gotUL, lastUL, preAuthGot, unsafeOut, lastKick,
           nUnsafe, nRate, calls, removed, leaves, snaps, lastIn,
           moderated, sent, lastChat, outOfOrder, failed >>

Absent == 0 - 1

(* The record of one call of check_safe: the last stage it ran, the text,  *)
(* and the toxicity service's answer if the service was asked.             *)
NotModerated == [stage |-> "none"]
Moderated(run, text, key, reply) ==
  [stage |-> run.stage, text |-> text,
   hf |-> IF run.stage = "toxicity" /\ key THEN reply ELSE "none"]

St ==
  [ clients |-> clients, users |-> users, unsafe_counts |-> unsafe_counts,
    rate_limit_counts |-> rate_limit_counts,
    last_message_times |-> last_message_times, banned_emails |-> banned_emails,
    flagged_log |-> flagged_log, conn |-> conn, pc |-> pc, work |-> work,
    everAuth |-> everAuth, leftAuth |-> leftAuth, gotUL |-> gotUL,
    lastUL |-> lastUL, preAuthGot |-> preAuthGot, unsafeOut |-> unsafeOut,
    lastKick |-> lastKick, nUnsafe |-> nUnsafe, nRate |-> nRate,
    calls |-> calls, removed |-> removed, leaves |-> leaves, snaps |-> snaps,
    moderated |-> moderated, sent |-> sent, lastChat |-> lastChat,
    outOfOrder |-> outOfOrder, failed |-> failed ]

Commit(s) ==
  /\ clients' = s.clients
  /\ users' = s.users
  /\ unsafe_counts' = s.unsafe_counts
  /\ rate_limit_counts' = s.rate_limit_counts
  /\ last_message_times' = s.last_message_times
  /\ banned_emails' = s.banned_emails
  /\ flagged_log' = s.flagged_log
  /\ conn' = s.conn
  /\ pc' = s.pc
  /\ work' = s.work
  /\ everAuth' = s.everAuth
  /\ leftAuth' = s.leftAuth
  /\ gotUL' = s.gotUL
  /\ lastUL' = s.lastUL
  /\ preAuthGot' = s.preAuthGot
  /\ unsafeOut' = s.unsafeOut
  /\ lastKick' = s.lastKick
  /\ nUnsafe' = s.nUnsafe
  /\ nRate' = s.nRate
  /\ calls' = s.calls
  /\ removed' = s.removed
  /\ leaves' = s.leaves
  /\ moderated' = s.moderated
  /\ sent' = s.sent
  /\ lastChat' = s.lastChat
  /\ outOfOrder' = s.outOfOrder
  /\ failed' = s.failed
  /\ snaps' = s.snaps

\* ------------------------------------------------------ dict / list helpers
SeqRemove(q, x) ==
  LET F[i \in 0..Len(q)] ==
        IF i = 0 THEN <<>>
        ELSE IF q[i] = x THEN F[i-1] ELSE Append(F[i-1], q[i])
  IN F[Len(q)]

InSeq(q, x) == \E i \in 1..Len(q) : q[i] = x

UsersHas(u, ws) == \E i \in 1..Len(u) : u[i][1] = ws
UsersGet(u, ws) == LET i == CHOOSE i \in 1..Len(u) : u[i][1] = ws IN u[i][2]
\* users[ws] = user: an existing key keeps its place
UsersSet(u, ws, user) ==
  IF UsersHas(u, ws)
  THEN [i \in 1..Len(u) |-> IF u[i][1] = ws THEN <<ws, user>> ELSE u[i]]
  ELSE Append(u, <<ws, user>>)
UsersPop(u, ws) ==
  LET F[i \in 0..Len(u)] ==
        IF i = 0 THEN <<>>
        ELSE IF u[i][1] = ws THEN F[i-1] ELSE Append(F[i-1], u[i])
  IN F[Len(u)]
\* users.values()
UsersValues(u) == [i \in 1..Len(u) |-> u[i][2]]
UsersEmails(u) == { u[i][2].email : i \in 1..Len(u) }

\* ------------------------------------------------------------ task items
(* The operations a task still has to run, first to last.  An item is one  *)
(* call or one loop iteration of the source; Run executes them.            *)
NoWs == 0

ItSend(ev)               == [k |-> "send", ev |-> ev]
ItClose                  == [k |-> "close"]
ItBroadcast(ev, ex)      == [k |-> "broadcast_json", ev |-> ev, ex |-> ex]
ItBSend(to, ev, ex)      == [k |-> "bsend", to |-> to, ev |-> ev, ex |-> ex]
ItSystem(content, cause) == [k |-> "broadcast_system", content |-> content, cause |-> cause]
ItUserList(cause)        == [k |-> "broadcast_user_list", cause |-> cause]
ItRemove(c)              == [k |-> "remove_client", ws |-> c]
ItRateCheck(email)       == [k |-> "rate_check", email |-> email]
ItUnsafeCheck(email, ai) == [k |-> "unsafe_check", email |-> email, ai |-> ai]
ItContinue               == [k |-> "continue"]
ItFinally                == [k |-> "finally"]
ItExit                   == [k |-> "exit"]

EvKick(content)    == [type |-> "kick", content |-> content]
EvWarning(content) == [type |-> "warning", content |-> content]
EvSystem(content)  == [type |-> "system", content |-> content]
EvUserList(online) == [type |-> "user_list", users |-> online]
EvChat(content, sender, name, pic, timestamp, mod) ==
  [type |-> "chat", content |-> content, sender |-> sender, name |-> name,
   pic |-> pic, timestamp |-> timestamp, mod |-> mod]

(* c.open: the connection state is OPEN.  A "lost" connection still reads  *)
(* as open; a send on it raises ConnectionClosed.                          *)
IsOpen(s, c) == s.conn[c] \in {"open", "lost"}

(* The peer receives ev on connection "to"; bc: it came from a broadcast;   *)
(* by: the task whose send it was.                                         *)
Deliver(s, to, ev, bc, by) ==
  [s EXCEPT
     !.lastChat[to][by] = IF ev.type = "chat"
                          THEN [ts |-> ev.timestamp, n |-> @.n + 1] ELSE @,
     !.outOfOrder = IF ev.type = "chat" /\ ev.timestamp < s.lastChat[to][by].ts
                    THEN TRUE ELSE @,
     !.gotUL[to] = IF ev.type = "user_list" THEN TRUE ELSE @,
     !.lastUL[to] = IF ev.type = "user_list" THEN ev.users ELSE @,
     !.preAuthGot[to] = IF bc /\ ~s.everAuth[to] THEN TRUE ELSE @,
     !.unsafeOut = IF ev.type = "chat" /\ ~ev.mod THEN TRUE ELSE @,
     !.lastKick[to] = IF ev.type = "kick" THEN ev.content ELSE @]

\* for c in clients[:]: one ItBSend per element of the copy
broadcast_json(cl, ev, ex) == [i \in 1..Len(cl) |-> ItBSend(cl[i], ev, ex)]

\* online = [... for u in users.values()]
broadcast_user_list(u) == EvUserList(UsersValues(u))

(* remove_client(ws) up to its first await: the registry update, and the   *)
(* calls that follow it put in front of the rest of the task.              *)
remove_client_body(s, t, c, rest) ==
  LET had == UsersHas(s.users, c)
      u == IF had THEN UsersGet(s.users, c) ELSE NoUser
  IN [s EXCEPT
        !.users = UsersPop(@, c),
        !.clients = SeqRemove(@, c),
        !.unsafe_counts[c] = Absent,
        !.rate_limit_counts[c] = Absent,
        !.last_message_times[c] = Absent,
        !.calls[c] = @ + 1,
        !.removed[c] = @ + 1,
        !.leftAuth[c] = @ \/ had,
        !.work[t] = (IF had THEN <<ItSystem(<<u.name, "left the chat.">>, c)>>
                     ELSE <<>>)
                    \o <<ItUserList(c)>> \o rest]

\* server.py:118-127 without the "if ws in clients" guard
remove_client_unguarded(s, t, c, rest) == remove_client_body(s, t, c, rest)

\* server.py:118-127
remove_client(s, t, c, rest) ==
  IF InSeq(s.clients, c)
  THEN remove_client_body(s, t, c, rest)
  ELSE [s EXCEPT !.calls[c] = @ + 1, !.work[t] = rest]

(* Run task t from where it was resumed to its next await.                 *)
\* server.py:102-106 without the try/except: ConnectionClosed ends the handler
send_failed_uncaught(s, t, c, rest) ==
  [s EXCEPT !.conn[c] = "closed", !.failed = @ \cup {c}, !.work[t] = <<ItFinally>>]

(* server.py:105-106: c.send raised ConnectionClosed in task t; the loop    *)
(* removes c and goes on with the rest of the copy.                        *)
send_failed(s, t, c, rest) ==
  [s EXCEPT !.conn[c] = "closed", !.failed = @ \cup {c},
            !.work[t] = <<ItRemove(c)>> \o rest]

RECURSIVE Run(_, _)
Run(s, t) ==
  LET it == Head(s.work[t])
      rest == Tail(s.work[t])
  IN
  CASE it.k = "bsend" ->
         IF it.to # it.ex /\ IsOpen(s, it.to)
         THEN IF s.conn[it.to] = "open"
              THEN Deliver([s EXCEPT !.work[t] = rest], it.to, it.ev, TRUE, t)
              ELSE send_failed(s, t, it.to, rest)
         ELSE Run([s EXCEPT !.work[t] = rest], t)
    [] it.k = "broadcast_json" ->
         Run([s EXCEPT !.work[t] = broadcast_json(s.clients, it.ev, it.ex) \o rest], t)
    [] it.k = "broadcast_system" ->
         Run([(IF it.cause # NoWs THEN [s EXCEPT !.leaves[it.cause] = @ + 1] ELSE s)
                EXCEPT !.work[t] = <<ItBroadcast(EvSystem(it.content), NoWs)>> \o rest], t)
    [] it.k = "broadcast_user_list" ->
         Run([(IF it.cause # NoWs THEN [s EXCEPT !.snaps[it.cause] = @ + 1] ELSE s)
                EXCEPT !.work[t] = <<ItBroadcast(broadcast_user_list(s.users), NoWs)>> \o rest], t)
    [] it.k = "remove_client" ->
         Run(remove_client(s, t, it.ws, rest), t)
    [] it.k = "send" ->
         IF s.conn[t] = "open"
         THEN Deliver([s EXCEPT !.work[t] = rest], t, it.ev, FALSE, t)
         ELSE IF s.conn[t] = "lost"
         THEN [s EXCEPT !.conn[t] = "closed", !.work[t] = <<ItFinally>>]
         ELSE Run([s EXCEPT !.work[t] = <<ItFinally>>], t)
    [] it.k = "close" ->
         [s EXCEPT !.conn[t] = "closed", !.work[t] = rest]
    [] it.k = "rate_check" ->
         IF s.rate_limit_counts[t] = Absent
         THEN Run([s EXCEPT !.work[t] = <<ItFinally>>], t)
         ELSE IF s.rate_limit_counts[t] >= RATE_LIMIT
         THEN Run([s EXCEPT
                     !.banned_emails = @ \cup {it.email},
                     !.work[t] = <<ItSend(EvKick("Banned for spamming.")),
                                   ItClose, ItFinally>>], t)
         ELSE Run([s EXCEPT !.work[t] = <<ItContinue>>], t)
    [] it.k = "unsafe_check" ->
         IF s.unsafe_counts[t] = Absent
         THEN Run([s EXCEPT !.work[t] = <<ItFinally>>], t)
         ELSE IF s.unsafe_counts[t] >= UNSAFE_LIMIT
         THEN Run([s EXCEPT
                     !.banned_emails = @ \cup {it.email},
                     !.work[t] =
                        IF it.ai
                        THEN <<ItSend(EvKick("Banned for unsafe inputs.")),
                               ItClose, ItContinue>>
                        ELSE <<ItSend(EvKick("Banned for repeated unsafe messages.")),
                               ItClose, ItFinally>>], t)
         ELSE Run([s EXCEPT !.work[t] = <<ItContinue>>], t)
    [] it.k = "continue" ->
         [s EXCEPT !.work[t] = <<>>]
    [] it.k = "finally" ->
         Run([s EXCEPT !.work[t] = <<ItRemove(t), ItExit>>], t)
    [] it.k = "exit" ->
         [s EXCEPT !.work[t] = <<>>, !.pc[t] = "done", !.conn[t] = "closed"]

\* ------------------------------------------- handle_client, one frame
(* Each operator is the handler's code from the frame's arrival to the     *)
(* first await of its branch: the registry update it makes at once, and    *)
(* the awaited calls that follow as the task's work.                       *)
Kick(s, t, content) ==
  [s EXCEPT !.work[t] = <<ItSend(EvKick(content)), ItClose, ItFinally>>]

\* server.py:140-168 with the "already logged in" test left out
auth_message_no_active_check(s, t, token) ==
  LET user == verify_google_token(token) IN
  IF user = NoUser \/ user.email = None \/ user.email = ""
  THEN Kick(s, t, "Invalid Google Sign-In")
  ELSE IF user.email \in s.banned_emails
  THEN Kick(s, t, "You are banned.")
  ELSE [s EXCEPT
          !.users = UsersSet(@, t, user),
          !.unsafe_counts[t] = 0,
          !.rate_limit_counts[t] = 0,
          !.everAuth[t] = TRUE,
          !.work[t] = << ItSystem(<<user.name, "joined the chat!">>, NoWs),
                         ItUserList(NoWs),
                         ItSend(EvSystem("Connected to SafeTalk")),
                         ItContinue >>]

\* server.py:140-168 with the ban test left out
auth_message_no_ban_check(s, t, token) ==
  LET user == verify_google_token(token) IN
  IF user = NoUser \/ user.email = None \/ user.email = ""
  THEN Kick(s, t, "Invalid Google Sign-In")
  ELSE IF user.email \in UsersEmails(s.users)
  THEN Kick(s, t, "This account is already active.")
  ELSE [s EXCEPT
          !.users = UsersSet(@, t, user),
          !.unsafe_counts[t] = 0,
          !.rate_limit_counts[t] = 0,
          !.everAuth[t] = TRUE,
          !.work[t] = << ItSystem(<<user.name, "joined the chat!">>, NoWs),
                         ItUserList(NoWs),
                         ItSend(EvSystem("Connected to SafeTalk")),
                         ItContinue >>]

\* server.py:140-168
auth_message(s, t, token) ==
  LET user == verify_google_token(token) IN
  IF user = NoUser \/ user.email = None \/ user.email = ""
  THEN Kick(s, t, "Invalid Google Sign-In")
  ELSE IF user.email \in s.banned_emails
  THEN Kick(s, t, "You are banned.")
  ELSE IF user.email \in UsersEmails(s.users)
  THEN Kick(s, t, "This account is already active.")
  ELSE [s EXCEPT
          !.users = UsersSet(@, t, user),
          !.unsafe_counts[t] = 0,
          !.rate_limit_counts[t] = 0,
          !.everAuth[t] = TRUE,
          !.work[t] = << ItSystem(<<user.name, "joined the chat!">>, NoWs),
                         ItUserList(NoWs),
                         ItSend(EvSystem("Connected to SafeTalk")),
                         ItContinue >>]

\* server.py:193-201, the branch taken when the message came too soon
rate_limited(s, t, email) ==
  IF s.rate_limit_counts[t] = Absent
  THEN [s EXCEPT !.work[t] = <<ItFinally>>]
  ELSE [s EXCEPT
          !.rate_limit_counts[t] = @ + 1,
          !.nRate[t] = @ + 1,
          !.work[t] = <<ItSend(EvWarning("Too fast! Slow down.")), ItRateCheck(email)>>]

(* server.py:56-61: one line is appended to the flagged-message log; when  *)
(* the file cannot be opened or written the exception is swallowed and     *)
(* the log stays as it was.                                                *)
log_flagged(log, email, message, reason, opens) ==
  IF opens THEN Append(log, <<email, message, reason>>) ELSE log

\* server.py:208-216 and 250-258: the content was judged unsafe
content_violation(s, t, email, text, reason, ai, opens) ==
  IF s.unsafe_counts[t] = Absent
  THEN [s EXCEPT !.work[t] = <<ItFinally>>]
  ELSE [s EXCEPT
          !.unsafe_counts[t] = @ + 1,
          !.nUnsafe[t] = @ + 1,
          !.flagged_log = log_flagged(@, email, text, reason, opens),
          !.work[t] = << ItSend(EvWarning(<<IF ai THEN "AI prompt blocked" ELSE "Blocked",
                                           reason>>)),
                         ItUnsafeCheck(email, ai) >>]

\* server.py:205-237
ai_command(s, t, user, msg, clock, key, hf, ai, opens) ==
  LET prompt == ai_prompt(msg)
      run == check_safe_run(prompt, key, hf)
      res == run.res
      s0 == [s EXCEPT !.moderated = Moderated(run, prompt, key, hf)]
  IN IF ~res[1]
     THEN content_violation(s0, t, user.email, prompt, res[2], TRUE, opens)
     ELSE LET ai_reply == [bot |-> TRUE, prompt |-> prompt, error |-> (ai = "error")]
          IN [s0 EXCEPT
                !.sent[t] = [ts |-> clock,
                             to |-> { s.clients[i] : i \in 1..Len(s.clients) }],
                !.work[t] =
                << ItBroadcast(EvChat(ai_reply, "AI", "AI", "", clock, res[1]), NoWs),
                   ItContinue >>]

\* server.py:239-258 with the verdict ignored
normal_message_unchecked(s, t, user, msg, clock, key, hf, opens) ==
  LET res == check_safe(msg, key, hf)
  IN [s EXCEPT !.work[t] =
        << ItBroadcast(EvChat(msg, user.email, user.name, user.pic, clock, res[1]),
                       NoWs),
           ItContinue >>]

\* server.py:239-258
normal_message(s, t, user, msg, clock, key, hf, opens) ==
  LET run == check_safe_run(msg, key, hf)
      res == run.res
      s0 == [s EXCEPT !.moderated = Moderated(run, msg, key, hf)]
  IN IF res[1]
     THEN [s0 EXCEPT
             !.sent[t] = [ts |-> clock, to |-> { s.clients[i] : i \in 1..Len(s.clients) }],
             !.work[t] =
             << ItBroadcast(EvChat(msg, user.email, user.name, user.pic, clock, res[1]),
                            NoWs),
                ItContinue >>]
     ELSE content_violation(s0, t, user.email, msg, res[2], FALSE, opens)

\* server.py:183-258
chat_message(s, t, content, clock, key, hf, ai, opens) ==
  LET user == UsersGet(s.users, t)
      msg == strip(content)
      last == s.last_message_times[t]
  IN IF msg.len = 0
     THEN [s EXCEPT !.work[t] = <<ItContinue>>]
     ELSE IF msg.len > MAX_LEN
     THEN [s EXCEPT !.work[t] = <<ItSend(EvWarning("Message too long.")), ItContinue>>]
     ELSE IF last # Absent /\ clock - last < MIN_SPACING * TICKS_PER_SECOND
     THEN rate_limited(s, t, user.email)
     ELSE LET s1 == [s EXCEPT !.last_message_times[t] = clock]
          IN IF msg.ai
             THEN ai_command(s1, t, user, msg, clock, key, hf, ai, opens)
             ELSE normal_message(s1, t, user, msg, clock, key, hf, opens)

\* server.py:133-258 with a frame from a handle outside users dropped silently
handle_frame_unauth_ignored(s, t, frame, clock, key, hf, ai, opens) ==
  IF frame.k = "garbage"
  THEN [s EXCEPT !.work[t] = <<ItContinue>>]
  ELSE IF frame.k = "nonobject"
  THEN [s EXCEPT !.work[t] = <<ItFinally>>]
  ELSE IF frame.k = "auth"
  THEN auth_message(s, t, frame.token)
  ELSE IF ~UsersHas(s.users, t)
  THEN [s EXCEPT !.work[t] = <<ItContinue>>]
  ELSE IF frame.k = "chat"
  THEN chat_message(s, t, frame.content, clock, key, hf, ai, opens)
  ELSE [s EXCEPT !.work[t] = <<ItContinue>>]

\* server.py:133-258: the loop body for one inbound frame
handle_frame(s, t, frame, clock, key, hf, ai, opens) ==
  IF frame.k = "garbage"
  THEN [s EXCEPT !.work[t] = <<ItContinue>>]
  ELSE IF frame.k = "nonobject"
  THEN [s EXCEPT !.work[t] = <<ItFinally>>]
  ELSE IF frame.k = "auth"
  THEN auth_message(s, t, frame.token)
  ELSE IF ~UsersHas(s.users, t)
  THEN Kick(s, t, "Not authenticated.")
  ELSE IF frame.k = "chat"
  THEN chat_message(s, t, frame.content, clock, key, hf, ai, opens)
  ELSE [s EXCEPT !.work[t] = <<ItContinue>>]

\* ---------------------------------------------------------------- actions
InitWith(keys) ==
  /\ clients = <<>>
  /\ users = <<>>
  /\ unsafe_counts = [c \in Conns |-> Absent]
  /\ rate_limit_counts = [c \in Conns |-> Absent]
  /\ last_message_times = [c \in Conns |-> Absent]
  /\ banned_emails = {}
  /\ flagged_log = <<>>
  /\ hf_api_key \in keys
  /\ conn = [c \in Conns |-> "new"]
  /\ pc = [c \in Conns |-> "new"]
  /\ work = [c \in Conns |-> <<>>]
  /\ nframes = 0
  /\ everAuth = [c \in Conns |-> FALSE]
  /\ leftAuth = [c \in Conns |-> FALSE]
  /\ gotUL = [c \in Conns |-> FALSE]
  /\ lastUL = [c \in Conns |-> <<>>]
  /\ preAuthGot = [c \in Conns |-> FALSE]
  /\ unsafeOut = FALSE
  /\ lastKick = [c \in Conns |-> None]
  /\ nUnsafe = [c \in Conns |-> 0]
  /\ nRate = [c \in Conns |-> 0]
  /\ calls = [c \in Conns |-> 0]
  /\ removed = [c \in Conns |-> 0]
  /\ leaves = [c \in Conns |-> 0]
  /\ snaps = [c \in Conns |-> 0]
  /\ lastIn = [t |-> NoWs, frame |-> [k |-> "none"]]
  /\ moderated = NotModerated
  /\ sent = [c \in Conns |-> [ts |-> Absent, to |-> {}]]
  /\ lastChat = [c \in Conns |-> [b \in Conns |-> [ts |-> Absent, n |-> 0]]]
  /\ outOfOrder = FALSE
  /\ failed = {}

(* The state after the module is loaded; HF_API_KEY comes from the          *)
(* environment.  Init: a deployment with the key configured.               *)
Init == InitWith({TRUE})
InitAnyKey == InitWith(BOOLEAN)

\* server.py:130-133: a connection arrives, its handler starts and waits for a frame
Connect(t) ==
  /\ pc[t] = "new"
  /\ \A c \in Conns : c < t => pc[c] # "new"
  /\ clients' = Append(clients, t)
  /\ pc' = [pc EXCEPT ![t] = "live"]
  /\ conn' = [conn EXCEPT ![t] = "open"]
  /\ UNCHANGED << users, unsafe_counts, rate_limit_counts, last_message_times,
                  banned_emails, flagged_log, hf_api_key, work, nframes,
                  everAuth, leftAuth, gotUL, lastUL, preAuthGot, unsafeOut, lastKick,
                  nUnsafe, nRate, calls, removed, leaves, snaps, lastIn,
                  moderated, sent, lastChat, outOfOrder, failed >>

(* What handling a frame can consult: the clock (datetime.utcnow(), line   *)
(* 180) only for a chat frame, the toxicity service only for a text the    *)
(* lexical classifier lets through, the completion service only for an     *)
(* assistant command, the log file only for a text a classifier can flag.  *)
(* The clock is the wall clock, in ticks: a reading can be below the one   *)
(* before it (the system time was set back).                               *)
HFAsked(frame) ==
  IF frame.k = "chat" /\ ~frame.content.prof THEN HFReplies ELSE {"scored"}
AIAsked(frame) == IF frame.k = "chat" /\ frame.content.ai THEN AIReplies ELSE {"text"}
ClockRead(frame, maxTime) == IF frame.k = "chat" THEN 0..maxTime ELSE {0}
LogOpens(frame) ==
  IF frame.k = "chat" /\ (frame.content.prof \/ frame.content.tox > TOXIC_PERCENT)
  THEN BOOLEAN ELSE {TRUE}

(* server.py:133-258 with the frame's handling started as a task of its    *)
(* own instead of awaited: the next frame is taken while the sends of the  *)
(* previous one are still pending, and its sends run first.                *)
Recv_unawaited(t, frames, maxFrames, maxTime) ==
  /\ pc[t] = "live"
  /\ nframes < maxFrames
  /\ \E frame \in frames :
     \E hf \in HFAsked(frame), ai \in AIAsked(frame), clock \in ClockRead(frame, maxTime),
        opens \in LogOpens(frame) :
        LET s1 == handle_frame([St EXCEPT !.moderated = NotModerated, !.work[t] = <<>>],
                               t, frame, clock, hf_api_key, hf, ai, opens)
            w == s1.work[t]
            own == IF w # <<>> /\ w[Len(w)] = ItContinue
                   THEN SubSeq(w, 1, Len(w) - 1) ELSE w
            s2 == IF work[t] = <<>> THEN s1 ELSE [s1 EXCEPT !.work[t] = own \o work[t]]
        IN /\ Commit(Run(s2, t))
           /\ lastIn' = [t |-> t, frame |-> IF frame.k = "chat" THEN [k |-> "chat"] ELSE frame]
  /\ nframes' = nframes + 1
  /\ UNCHANGED hf_api_key

\* server.py:133-258: the handler takes the next frame and runs to its first await
Recv(t, frames, maxFrames, maxTime) ==
  /\ pc[t] = "live"
  /\ work[t] = <<>>
  /\ nframes < maxFrames
  /\ \E frame \in frames :
     \E hf \in HFAsked(frame), ai \in AIAsked(frame), clock \in ClockRead(frame, maxTime),
        opens \in LogOpens(frame) :
        /\ Commit(Run(handle_frame([St EXCEPT !.moderated = NotModerated],
                                   t, frame, clock, hf_api_key, hf, ai, opens), t))
        /\ lastIn' = [t |-> t, frame |-> IF frame.k = "chat" THEN [k |-> "chat"] ELSE frame]
  /\ nframes' = nframes + 1
  /\ UNCHANGED hf_api_key

\* server.py:133, 260-263: the frame iterator ends or raises ConnectionClosed
EndOfStream(t) ==
  /\ pc[t] = "live"
  /\ work[t] = <<>>
  /\ conn[t] \in {"lost", "closed"}
  /\ Commit(Run([St EXCEPT !.work[t] = <<ItFinally>>], t))
  /\ UNCHANGED << hf_api_key, nframes, lastIn >>

\* the event loop resumes a task suspended in an await
Resume(t) ==
  /\ work[t] # <<>>
  /\ Commit(Run(St, t))
  /\ UNCHANGED << hf_api_key, nframes, lastIn >>

\* the peer goes away: the transport fails, then the protocol state leaves OPEN
PeerDrop(t) ==
  /\ pc[t] = "live"
  /\ conn[t] = "open"
  /\ \E to \in {"lost", "closed"} : conn' = [conn EXCEPT ![t] = to]
  /\ UNCHANGED << clients, users, unsafe_counts, rate_limit_counts,
                  last_message_times, banned_emails, flagged_log, hf_api_key,
                  pc, work, nframes, everAuth, leftAuth, gotUL, lastUL, preAuthGot,
                  unsafeOut, lastKick, nUnsafe, nRate, calls, removed, leaves, snaps,
                  lastIn, moderated, sent, lastChat, outOfOrder, failed >>

NextB(cs, frames, maxFrames, maxTime) ==
  \/ \E t \in cs : Connect(t)
  \/ \E t \in Conns : Recv(t, frames, maxFrames, maxTime)
  \/ \E t \in Conns : EndOfStream(t)
  \/ \E t \in Conns : Resume(t)
  \/ \E t \in Conns : PeerDrop(t)

Next == NextB(Conns, Frames, MaxFrames, MaxTime)
Spec == Init /\ [][Next]_vars

NextSolo == NextB(SoloConns, Frames, SoloFrames, SoloTime)
SpecSolo == InitAnyKey /\ [][NextSolo]_vars

(* Two connections that send only sign-ins of one account (with a token    *)
(* that verifies or one that does not) and profane chat: the runs in which *)
(* an account is banned and then signs in again.                           *)
BanFrameSet ==
  { f \in Frames : \/ f.k = "auth" /\ f.token.email = "a@x"
                   \/ f.k = "chat" /\ f.content.prof /\ ~f.content.ai }
NextBan == NextB(Conns, BanFrameSet, BanFrames, SoloTime)
SpecBan == Init /\ [][NextBan]_vars

(* One connection that signs in with either account and sends clean chat:  *)
(* the runs that are long enough for five rate violations.                 *)
RateFrameSet ==
  { f \in Frames :
       \/ f.k = "auth" /\ f.token.valid /\ f.token.email # None
       \/ f.k = "chat" /\ ~f.content.prof /\ ~f.content.ai
                       /\ f.content.len \in 1..MAX_LEN
                       /\ f.content.tox <= TOXIC_PERCENT }
NextRate == NextB(SoloConns, RateFrameSet, RateFrames, RateTime)
SpecRate == Init /\ [][NextRate]_vars

(* One connection, with or without a moderation key, that signs in and    *)
(* sends chat of every kind: the runs that put every text through          *)
(* check_safe under every answer of the toxicity service.                  *)
ModFrameSet ==
  { f \in Frames : \/ f.k = "auth" /\ f.token.valid /\ f.token.email = "a@x"
                   \/ f.k = "chat" }
NextMod == NextB(SoloConns, ModFrameSet, ModFrames, SoloTime)
SpecMod == InitAnyKey /\ [][NextMod]_vars

(* Two connections that sign in, under an event loop that runs every task  *)
(* that is ready: a task suspended in an await whose operation has         *)
(* completed is resumed.  Fair(t) is WF_vars(Resume(t)) with               *)
(* ENABLED <<Resume(t)>>_vars written out: Resume(t) can be taken, and     *)
(* changes work[t], exactly when work[t] is not empty.                     *)
LiveFrameSet ==
  { f \in Frames : f.k = "auth" /\ f.token.valid /\ f.token.email # None }
NextLive == NextB(Conns, LiveFrameSet, MaxFrames, MaxTime)
Fair(t) == []<>(work[t] = <<>>) \/ []<><<Resume(t)>>_vars
SpecLive == Init /\ [][NextLive]_vars /\ \A t \in Conns : Fair(t)

(* Two connections, one account, clean ordinary chat: the runs in which a  *)
(* session sends two messages a second apart.                              *)
FifoFrameSet ==
  { f \in Frames :
       \/ f.k = "auth" /\ f.token.valid /\ f.token.email = "a@x"
       \/ f.k = "chat" /\ ~f.content.prof /\ ~f.content.ai
                       /\ f.content.len \in 1..MAX_LEN
                       /\ f.content.tox <= TOXIC_PERCENT }
NextFifo == NextB(Conns, FifoFrameSet, FifoFrames, FifoTime)
SpecFifo == Init /\ [][NextFifo]_vars

\* ----------------------------------------------------------------- claims
Quiescent == \A t \in Conns : work[t] = <<>>

HoldsEmail(u, t, e) == UsersHas(u, t) /\ UsersGet(u, t).email = e

(* C1: in every reachable state no two distinct handles in users carry the *)
(* same email, whatever the interleaving of the handlers.                  *)
C1_OneSessionPerEmail ==
  \A i, j \in 1..Len(users) :
     i # j => users[i][1] # users[j][1] /\ users[i][2].email # users[j][2].email

(* Both connections signed in with the same email: one holds it, the other *)
(* was told the account is already active.                                 *)
C1_Witness ==
  \E t, o \in Conns :
     /\ t # o
     /\ UsersHas(users, t)
     /\ ~UsersHas(users, o)
     /\ lastKick[o] = "This account is already active."

(* C2: once an email is in banned_emails no step admits a handle with that *)
(* email: a handle holds a banned email after a step only if it held it    *)
(* before the step.                                                        *)
C2_BannedNeverAdmitted ==
  [][\A t \in Conns : \A e \in banned_emails :
        HoldsEmail(users', t, e) => HoldsEmail(users, t, e)]_vars

(* An account was banned on one connection and its sign-in on the other    *)
(* connection was refused.                                                 *)
C2_Witness ==
  \E t \in Conns :
     /\ lastKick[t] = "You are banned."
     /\ banned_emails # {}
     /\ ~UsersHas(users, t)

(* C3: no chat event is delivered to any connection for content (a chat    *)
(* message, or the prompt of an assistant reply) that check_safe judged     *)
(* unsafe.                                                                  *)
C3_OnlySafeContentBroadcast == ~unsafeOut

(* Content was judged unsafe while both connections were registered, and   *)
(* its sender was warned.                                                  *)
C3_Witness ==
  \E t \in Conns :
     /\ Len(clients) = 2
     /\ work[t] # <<>>
     /\ Head(work[t]).k = "unsafe_check"
     /\ nUnsafe[t] > 0
     /\ ~unsafeOut

ContentBanKicks ==
  {"Banned for unsafe inputs.", "Banned for repeated unsafe messages."}

(* C4: a session whose third content violation has been handled is no     *)
(* longer open, and a session with fewer than three content violations    *)
(* has not been sent a content-ban kick.                                   *)
C4_ThirdViolationCloses ==
  \A t \in Conns :
     /\ (nUnsafe[t] >= UNSAFE_LIMIT /\ work[t] = <<>>) => conn[t] # "open"
     /\ nUnsafe[t] < UNSAFE_LIMIT => lastKick[t] \notin ContentBanKicks

(* C5: a session whose fifth rate violation has been handled is no longer  *)
(* open, and a session with fewer than five rate violations has not been   *)
(* sent the spam-ban kick.                                                 *)
C5_FifthRateViolationCloses ==
  \A t \in Conns :
     /\ (nRate[t] >= RATE_LIMIT /\ work[t] = <<>>) => conn[t] # "open"
     /\ nRate[t] < RATE_LIMIT => lastKick[t] # "Banned for spamming."

(* C6: once every broadcast has completed and every handle in users is a   *)
(* registered client, the last user_list delivered to each open            *)
(* Authenticated session is the current list of users.                     *)
C6_LastUserListIsCurrent ==
  (Quiescent /\ \A t \in Conns : UsersHas(users, t) => InSeq(clients, t)) =>
    \A t \in Conns :
       (UsersHas(users, t) /\ conn[t] = "open") =>
          (gotUL[t] /\ lastUL[t] = UsersValues(users))

(* C7: no broadcast is delivered to a connection that has not been         *)
(* admitted.                                                               *)
C7_NoBroadcastBeforeAuth == \A t \in Conns : ~preAuthGot[t]

(* C8: the identity a handle holds in users never changes while it holds   *)
(* one, and a handle that was taken out of users is never put back.        *)
C8_IdentityFixed ==
  [][\A t \in Conns :
        /\ (UsersHas(users, t) /\ UsersHas(users', t))
              => UsersGet(users', t) = UsersGet(users, t)
        /\ leftAuth[t] => ~UsersHas(users', t)]_vars

(* C9: while a session's counters exist, no step lowers unsafe_counts or   *)
(* rate_limit_counts.                                                      *)
C9_CountersMonotonic ==
  [][\A t \in Conns :
        /\ (unsafe_counts[t] # Absent /\ unsafe_counts'[t] # Absent)
              => unsafe_counts'[t] >= unsafe_counts[t]
        /\ (rate_limit_counts[t] # Absent /\ rate_limit_counts'[t] # Absent)
              => rate_limit_counts'[t] >= rate_limit_counts[t]]_vars

(* C10: when a handler has finished and all broadcasts are done, the       *)
(* session was removed from the registry exactly once and is in neither    *)
(* clients nor users; if it had reached Authenticated, one leave notice    *)
(* and one presence snapshot were broadcast for it, and if it had not, no  *)
(* leave notice was.                                                       *)
C10_CleanupOnce ==
  \A t \in Conns :
     (Quiescent /\ pc[t] = "done") =>
        /\ removed[t] = 1
        /\ ~InSeq(clients, t) /\ ~UsersHas(users, t)
        /\ everAuth[t] => (leaves[t] = 1 /\ snaps[t] = 1)
        /\ ~everAuth[t] => leaves[t] = 0

(* The step in which the handler of t takes a frame.                       *)
Took(t) == nframes' = nframes + 1 /\ lastIn'.t = t

(* C11 as stated: a chat or other non-auth message from a session that     *)
(* never authenticated causes no broadcast.  Read on a run in which nobody *)
(* ever signed in: no other connection is sent anything after the kick.    *)
C11_Original ==
  \A t \in Conns :
     (lastKick[t] = "Not authenticated." /\ \A o \in Conns : ~everAuth[o])
        => ~(snaps[t] > 0 /\ \E o \in Conns \ {t} : gotUL[o])

(* C11: when a session that never authenticated sends a chat or another    *)
(* non-auth message, the step changes no registry entry, no counter, no    *)
(* ban and no log entry and delivers nothing to any other connection; on   *)
(* an open connection the kick "Not authenticated." is delivered and all   *)
(* that is left to the handler is the close and its cleanup (whose         *)
(* remove_client broadcasts the user list).                                *)
C11_UnauthenticatedKicked ==
  [][\A t \in Conns :
       (Took(t) /\ lastIn'.frame.k \in {"chat", "other"} /\ ~everAuth[t])
          => /\ users' = users
             /\ unsafe_counts' = unsafe_counts
             /\ rate_limit_counts' = rate_limit_counts
             /\ last_message_times' = last_message_times
             /\ banned_emails' = banned_emails
             /\ flagged_log' = flagged_log
             /\ nUnsafe' = nUnsafe /\ nRate' = nRate
             /\ conn[t] = "open"
                  => /\ lastKick'[t] = "Not authenticated."
                     /\ work'[t] = <<ItClose, ItFinally>>
                     /\ clients' = clients
                     /\ gotUL' = gotUL /\ lastUL' = lastUL
                     /\ preAuthGot' = [preAuthGot EXCEPT ![t] = preAuthGot'[t]]
    ]_vars

C11_Witness ==
  \E t \in Conns :
     /\ lastIn.t = t /\ lastIn.frame.k = "chat"
     /\ ~everAuth[t]
     /\ lastKick[t] = "Not authenticated."
     /\ work[t] = <<ItClose, ItFinally>>
     /\ \E o \in Conns \ {t} : UsersHas(users, o) /\ unsafe_counts[o] = 0

(* C12 as stated: an auth frame whose token carries a banned email is      *)
(* answered with the kick "You are banned.", whether or not the token      *)
(* verifies.                                                               *)
C12_Original ==
  [][\A t \in Conns :
       (/\ Took(t) /\ lastIn'.frame.k = "auth"
        /\ lastIn'.frame.token.email \in banned_emails
        /\ conn[t] = "open")
          => lastKick'[t] = "You are banned."
    ]_vars

(* C12: an auth frame whose token carries a banned email never admits the  *)
(* connection; on an open connection it is answered with the kick "You are *)
(* banned." when the token verifies and "Invalid Google Sign-In" when it   *)
(* does not, and only the close and the cleanup are left to the handler.   *)
C12_BannedRejected ==
  [][\A t \in Conns :
       (/\ Took(t) /\ lastIn'.frame.k = "auth"
        /\ lastIn'.frame.token.email \in banned_emails)
          => /\ ~(users' # users /\ UsersHas(users', t))
             /\ banned_emails' = banned_emails
             /\ conn[t] = "open"
                  => /\ lastKick'[t] = (IF lastIn'.frame.token.valid
                                        THEN "You are banned."
                                        ELSE "Invalid Google Sign-In")
                     /\ work'[t] = <<ItClose, ItFinally>>
                     /\ users' = users
    ]_vars

C12_Witness ==
  \E t \in Conns :
     /\ lastIn.t = t /\ lastIn.frame.k = "auth"
     /\ lastIn.frame.token.valid
     /\ lastIn.frame.token.email \in banned_emails
     /\ lastKick[t] = "You are banned."
     /\ work[t] = <<ItClose, ItFinally>>
     /\ ~UsersHas(users, t)

(* C13: whenever check_safe is applied to a text the lexical classifier    *)
(* matches, whatever the key and the toxicity service's answer, it stops   *)
(* at the lexical stage (check_hf_toxicity is not called) and returns      *)
(* unsafe with reason "Profanity detected": the violation is counted,      *)
(* nothing is broadcast, and the log gains at most one line, which carries *)
(* that reason (none when the log file could not be written).              *)
C13_ProfanityIsLexical ==
  [][\A t \in Conns :
       (/\ Took(t) /\ moderated'.stage # "none"
        /\ check_profanity_text(moderated'.text))
          => /\ moderated'.stage = "lexical"
             /\ nUnsafe'[t] = nUnsafe[t] + 1
             /\ flagged_log' \in
                   { flagged_log,
                     Append(flagged_log, <<UsersGet(users, t).email, moderated'.text,
                                           "Profanity detected">>) }
             /\ sent' = sent /\ lastChat' = lastChat
    ]_vars

C13_Witness ==
  \E t \in Conns :
     /\ lastIn.t = t /\ lastIn.frame.k = "chat"
     /\ moderated.stage = "lexical"
     /\ check_profanity_text(moderated.text)
     /\ hf_api_key
     /\ nUnsafe[t] = 1
     /\ Len(flagged_log) = 1 /\ flagged_log[1][3] = "Profanity detected"

(* C14: whenever check_safe is applied to a text the lexical classifier    *)
(* does not match while the toxicity service fails or no key is            *)
(* configured, it returns safe: no violation is counted or logged, nobody  *)
(* is banned, and the chat event is broadcast to the clients.              *)
C14_ToxicityFailsOpen ==
  [][\A t \in Conns :
       (/\ Took(t) /\ moderated'.stage # "none"
        /\ ~check_profanity_text(moderated'.text)
        /\ (~hf_api_key \/ moderated'.hf = "error"))
          => /\ moderated'.stage = "toxicity"
             /\ nUnsafe' = nUnsafe /\ unsafe_counts' = unsafe_counts
             /\ flagged_log' = flagged_log
             /\ banned_emails' = banned_emails
             /\ sent'[t].to = { clients[i] : i \in 1..Len(clients) }
             /\ sent'[t].ts > sent[t].ts
             /\ (clients # <<>> /\ conn[clients[1]] = "open")
                   => lastChat'[clients[1]][t].ts = sent'[t].ts
    ]_vars

C14_Witness ==
  \E t \in Conns :
     /\ lastIn.t = t /\ lastIn.frame.k = "chat"
     /\ moderated.stage = "toxicity"
     /\ ~check_profanity_text(moderated.text)
     /\ moderated.text.tox > TOXIC_PERCENT
     /\ hf_api_key /\ moderated.hf = "error"
     /\ nUnsafe[t] = 0
     /\ sent[t].ts = last_message_times[t] /\ lastChat[t][t].ts = sent[t].ts

(* C15: when a task has finished a chat broadcast, every connection that   *)
(* was in clients when the broadcast started and is still open has         *)
(* received the event, whatever sends failed on the way; and a connection  *)
(* on which a broadcast's send failed is out of clients, or its removal is *)
(* the next operation of the task that saw the failure.                    *)
C15_FailureDoesNotBlock ==
  /\ \A t \in Conns :
        (work[t] = <<>> /\ sent[t].ts # Absent)
           => \A r \in sent[t].to : conn[r] = "open" => lastChat[r][t].ts = sent[t].ts
  /\ \A c \in failed :
        InSeq(clients, c)
           => \E t \in Conns : work[t] # <<>> /\ Head(work[t]) = ItRemove(c)

C15_Witness ==
  \E t \in Conns : \E c \in Conns \ {t} :
     /\ clients = <<t>> /\ c < t
     /\ c \in failed /\ c \in sent[t].to
     /\ ~everAuth[c] /\ pc[c] = "live"
     /\ lastChat[c][t].n = 0
     /\ work[t] = <<>> /\ conn[t] = "open"
     /\ lastChat[t][t].ts = sent[t].ts

(* C16: once a content-ban kick has been delivered to a session and its    *)
(* connection has been closed, a frame its handler takes afterwards        *)
(* counts no violation, raises no counter, logs nothing, admits nobody and *)
(* starts no broadcast.                                                    *)
C16_ClosedIsTerminal ==
  [][\A t \in Conns :
       (lastKick[t] \in ContentBanKicks /\ conn[t] = "closed" /\ Took(t))
          => /\ unsafe_counts'[t] \in {unsafe_counts[t], Absent}
             /\ rate_limit_counts'[t] \in {rate_limit_counts[t], Absent}
             /\ nUnsafe' = nUnsafe /\ nRate' = nRate
             /\ ~(users' # users /\ UsersHas(users', t))
             /\ flagged_log' = flagged_log
             /\ sent' = sent
    ]_vars

(* C17: an auth frame with a verified, unbanned email taken on an open     *)
(* connection is answered with the kick "This account is already active."  *)
(* exactly when another connection whose handler is running holds that     *)
(* email in users; and then users and the counters are left as they were   *)
(* and no other connection is closed.                                      *)
C17_AlreadyActiveOnlyForOthers ==
  [][\A t \in Conns :
       (/\ Took(t) /\ lastIn'.frame.k = "auth" /\ conn[t] = "open"
        /\ verify_google_token(lastIn'.frame.token) # NoUser
        /\ verify_google_token(lastIn'.frame.token).email \notin banned_emails \cup {None})
          => LET e == verify_google_token(lastIn'.frame.token).email
                 rejected == /\ lastKick'[t] = "This account is already active."
                             /\ work'[t] = <<ItClose, ItFinally>>
             IN /\ rejected <=> \E o \in Conns \ {t} :
                                    HoldsEmail(users, o, e) /\ pc[o] = "live"
                /\ rejected => /\ users' = users
                               /\ unsafe_counts' = unsafe_counts
                               /\ rate_limit_counts' = rate_limit_counts
                               /\ \A o \in Conns \ {t} : conn'[o] = conn[o]
    ]_vars

(* An upper bound on the awaits an operation of a task can still lead to   *)
(* while clients keeps its length: a broadcast sends to at most every      *)
(* handle, a failed send becomes a remove_client call, a failed send of    *)
(* the handler itself becomes the cleanup.                                 *)
Cost(it) ==
  CASE it.k = "exit" -> 1
    [] it.k = "continue" -> 1
    [] it.k = "close" -> 1
    [] it.k = "remove_client" -> 2
    [] it.k = "bsend" -> 3
    [] it.k = "finally" -> 4
    [] it.k = "send" -> 5
    [] it.k \in {"rate_check", "unsafe_check"} -> 12
    [] it.k \in {"broadcast_json", "broadcast_system", "broadcast_user_list"} ->
         3 * Cardinality(Conns) + 1

RECURSIVE WorkCost(_)
WorkCost(w) == IF w = <<>> THEN 0 ELSE Cost(Head(w)) + WorkCost(Tail(w))

(* C18: every step of a task that is inside a publish either takes a       *)
(* handle out of clients or lowers the cost of the work the task has left  *)
(* (so the nesting publish -> remove_client -> publish is bounded by the   *)
(* length of clients), and under a fair event loop the work of every task  *)
(* runs out.                                                               *)
C18_PublishTerminates ==
  /\ [][\A t \in Conns :
          (work[t] # <<>> /\ work'[t] # work[t])
             => \/ Len(clients') < Len(clients)
                \/ Len(clients') = Len(clients) /\ WorkCost(work'[t]) < WorkCost(work[t])
       ]_vars
  /\ \A t \in Conns : (work[t] # <<>>) ~> (work[t] = <<>>)

(* A publish met a failed send, removed the handle with a leave notice,    *)
(* and has run to its end.                                                 *)
C18_Witness ==
  \E t \in Conns : \E c \in Conns \ {t} :
     /\ c \in failed /\ removed[c] = 1 /\ leaves[c] = 1 /\ snaps[c] = 1
     /\ pc[c] = "live"
     /\ work[t] = <<>> /\ pc[t] = "live" /\ UsersHas(users, t)
     /\ lastIn.t = t

(* C19: every handle that has an entry in users is in clients, and a       *)
(* handle whose handler has finished has no entry in users.                *)
C19_UsersWithinClients ==
  \A t \in Conns :
     /\ UsersHas(users, t) => InSeq(clients, t)
     /\ pc[t] = "done" => ~UsersHas(users, t)

(* C20: the chat events of one session reach every recipient in the order  *)
(* the session sent them: no connection is delivered a chat event of a     *)
(* task after a later one of the same task (two messages of one session    *)
(* never carry the same time: the second would be a rate violation), and   *)
(* the last one delivered is never later than the last one sent.           *)
C20_PerSenderFifo ==
  /\ ~outOfOrder
  /\ \A r \in Conns : \A t \in Conns : lastChat[r][t].ts <= sent[t].ts

C20_Witness ==
  \E t \in Conns : \E r \in Conns \ {t} :
     /\ sent[t].ts = MIN_SPACING * TICKS_PER_SECOND
     /\ lastChat[r][t] = [ts |-> MIN_SPACING * TICKS_PER_SECOND, n |-> 2]
     /\ lastChat[t][t] = [ts |-> MIN_SPACING * TICKS_PER_SECOND, n |-> 2]
     /\ conn[r] = "open" /\ work[t] = <<>>
====
